---- MODULE Spec2Model ----
(***************************************************************************)
(* Ownership, leaf-copy and destruction of the bpftrace AST node model     *)
(* (src/ast/ast.h).  The heap is a sequence of node records; a node id is  *)
(* its index.  The parser builds the tree bottom-up, passes annotate and   *)
(* leaf-copy nodes, and the driver finally deletes every root.             *)
(***************************************************************************)
EXTENDS Integers, Sequences, FiniteSets, TLC

VARIABLES
  heap,     \* the node objects, indexed by node id
  roots,    \* ids of the parentless nodes, oldest first
  pc,       \* the driver's position: "parse", "pass" or "destroy"
  fault,    \* undefined behaviour met during destruction
  crashed,  \* the process was ended by such a fault
  known,    \* per attach point and name: the index last set or returned
  call,     \* the last AttachPoint::index call and its result
  visited,  \* the node ids a visitor met, in order
  xp        \* the probe expansion in progress

vars == <<heap, roots, pc, fault, crashed, known, call, visited, xp>>

aux == <<known, call, visited, xp>>

\* ---------------------------------------------------------------- bounds
MaxNodes == 4
MaxList == 2
MaxCopies == 1

NULL == 0

\* ------------------------------------------------------- node taxonomy
ExprLeafKinds ==
  {"Integer", "PositionalParameter", "String", "StackMode", "Identifier",
   "Builtin", "Variable"}

ExprKinds ==
  ExprLeafKinds \cup
  {"Call", "Map", "Binop", "Unop", "FieldAccess", "ArrayAccess", "Cast",
   "Tuple", "Ternary"}

StmtKinds ==
  {"ExprStatement", "AssignMapStatement", "AssignVarStatement", "If",
   "Unroll", "While", "Jump"}

Kinds == ExprKinds \cup StmtKinds \cup {"Predicate", "AttachPoint", "Probe", "Program"}

\* A child slot of a class: a raw owning pointer to one node (list = FALSE)
\* or to a vector of nodes (list = TRUE).  cat is the declared pointee type,
\* opt tells whether a constructor overload leaves the slot null.
Slot(name, cat, list, opt) == [name |-> name, cat |-> cat, list |-> list, opt |-> opt]

Slots(kind) ==
  CASE kind = "Call" -> <<Slot("vargs", "Expression", TRUE, TRUE)>>
    [] kind = "Map" -> <<Slot("vargs", "Expression", TRUE, TRUE)>>
    [] kind = "Binop" -> <<Slot("left", "Expression", FALSE, FALSE),
                           Slot("right", "Expression", FALSE, FALSE)>>
    [] kind = "Unop" -> <<Slot("expr", "Expression", FALSE, FALSE)>>
    [] kind = "FieldAccess" -> <<Slot("expr", "Expression", FALSE, FALSE)>>
    [] kind = "ArrayAccess" -> <<Slot("expr", "Expression", FALSE, FALSE),
                                 Slot("indexpr", "Expression", FALSE, FALSE)>>
    [] kind = "Cast" -> <<Slot("expr", "Expression", FALSE, FALSE)>>
    [] kind = "Tuple" -> <<Slot("elems", "Expression", TRUE, FALSE)>>
    [] kind = "ExprStatement" -> <<Slot("expr", "Expression", FALSE, FALSE)>>
    [] kind = "AssignMapStatement" ->
         <<Slot("map", "Map", FALSE, FALSE),
           Slot("expr", "Expression", FALSE, FALSE)>>
    [] kind = "AssignVarStatement" ->
         <<Slot("var", "Variable", FALSE, FALSE),
           Slot("expr", "Expression", FALSE, FALSE)>>
    [] kind = "If" -> <<Slot("cond", "Expression", FALSE, FALSE),
                        Slot("stmts", "Statement", TRUE, FALSE),
                        Slot("else_stmts", "Statement", TRUE, TRUE)>>
    [] kind = "Unroll" -> <<Slot("expr", "Expression", FALSE, FALSE),
                            Slot("stmts", "Statement", TRUE, FALSE)>>
    [] kind = "Predicate" -> <<Slot("expr", "Expression", FALSE, FALSE)>>
    [] kind = "Ternary" -> <<Slot("cond", "Expression", FALSE, FALSE),
                             Slot("left", "Expression", FALSE, FALSE),
                             Slot("right", "Expression", FALSE, FALSE)>>
    [] kind = "While" -> <<Slot("cond", "Expression", FALSE, FALSE),
                           Slot("stmts", "Statement", TRUE, FALSE)>>
    [] kind = "Probe" -> <<Slot("attach_points", "AttachPoint", TRUE, FALSE),
                           Slot("pred", "Predicate", FALSE, TRUE),
                           Slot("stmts", "Statement", TRUE, FALSE)>>
    [] kind = "Program" -> <<Slot("probes", "Probe", TRUE, FALSE)>>
    [] OTHER -> <<>>

CompositeKinds == {k \in Kinds : Slots(k) # <<>>}

\* The classes the parser instantiates in the checked inputs: every composite
\* class, and one leaf class per pointee type a composite declares.
ParserKinds == CompositeKinds \cup {"Integer", "Variable", "Jump", "AttachPoint"}

\* Is a node of class kind acceptable where a pointer to cat is declared?
Fits(cat, kind) ==
  CASE cat = "Expression" -> kind \in ExprKinds
    [] cat = "Statement" -> kind \in StmtKinds
    [] OTHER -> kind = cat

\* The value of a child slot: a null pointer, or the pointed-to nodes.
NullSlot == [null |-> TRUE, ids |-> <<>>]
Ptr(ids) == [null |-> FALSE, ids |-> ids]

\* Scalar data members declared by each class itself.
ScalarFields(kind) ==
  CASE kind = "Integer" -> {"n"}
    [] kind = "PositionalParameter" -> {"ptype", "n", "is_in_str"}
    [] kind = "String" -> {"str"}
    [] kind = "StackMode" -> {"mode"}
    [] kind = "Identifier" -> {"ident"}
    [] kind = "Builtin" -> {"ident", "probe_id"}
    [] kind = "Call" -> {"func"}
    [] kind = "Map" -> {"ident", "skip_key_validation"}
    [] kind = "Variable" -> {"ident"}
    [] kind = "Binop" -> {"op"}
    [] kind = "Unop" -> {"op", "is_post_op"}
    [] kind = "FieldAccess" -> {"field", "index"}
    [] kind = "Cast" -> {"cast_type", "is_pointer", "is_double_pointer"}
    [] kind = "AssignMapStatement" -> {"compound"}
    [] kind = "AssignVarStatement" -> {"compound"}
    [] kind = "Unroll" -> {"var"}
    [] kind = "Jump" -> {"ident"}
    [] kind = "AttachPoint" ->
         {"raw_input", "provider", "target", "ns", "func", "usdt", "freq",
          "len", "mode", "need_expansion", "address", "func_offset"}
    [] kind = "Probe" -> {"need_expansion", "need_tp_args_structs", "index_"}
    [] kind = "Program" -> {"c_definitions"}
    [] OTHER -> {}

\* Scalar members a constructor receives as arguments; the others keep their
\* default member initialiser.
CtorFields(kind) ==
  CASE kind = "PositionalParameter" -> {"ptype", "n"}
    [] kind = "Map" -> {"ident"}
    [] kind = "FieldAccess" -> {"field"}
    [] kind = "Unroll" -> {}
    [] kind = "AttachPoint" -> {"raw_input"}
    [] kind = "Probe" -> {}
    [] kind \in {"AssignMapStatement", "AssignVarStatement"} -> {}
    [] OTHER -> ScalarFields(kind)

DefaultScalar(field) == IF field = "index" THEN -1 ELSE 0

EmptyIndex == [x \in {} |-> 0]

\* ------------------------------------------------------------ heap access
Ids == 1..Len(heap)

\* All node ids a slot value points at.
SlotIds(s) == {s.ids[i] : i \in 1..Len(s.ids)}

\* ------------------------------------------------------------ construction
\* The last k entries of a sequence.
LastK(s, k) == SubSeq(s, Len(s) - k + 1, Len(s))

RECURSIVE SumSeq(_)
SumSeq(s) == IF s = <<>> THEN 0 ELSE Head(s) + SumSeq(Tail(s))

\* How many operands each slot takes: -1 is a null pointer.
Taken(lens) == [i \in 1..Len(lens) |-> IF lens[i] < 0 THEN 0 ELSE lens[i]]

ValidLens(kind, lens) ==
  \A i \in 1..Len(lens) :
    LET s == Slots(kind)[i] IN
      /\ lens[i] = -1 => s.opt
      /\ ~s.list => lens[i] \in {-1, 1}
      /\ (kind = "Probe" /\ i = 1) => lens[i] >= 1

\* Split the operands among the slots, in declaration order.
FillSlots(lens, ops) ==
  [i \in 1..Len(lens) |->
     IF lens[i] < 0 THEN NullSlot
     ELSE LET before == SumSeq(SubSeq(Taken(lens), 1, i - 1))
          IN Ptr(SubSeq(ops, before + 1, before + lens[i]))]

OperandsFit(kind, kids) ==
  \A i \in 1..Len(kids) : \A c \in SlotIds(kids[i]) :
    Fits(Slots(kind)[i].cat, heap[c].kind)

\* A freshly constructed node: token position v supplies the location and
\* the constructor's scalar arguments.
NewNode(kind, v, compound, kids) ==
  [kind |-> kind,
   loc |-> v,
   type |-> 0,
   is_literal |-> kind \in {"Integer", "String", "PositionalParameter"},
   is_variable |-> kind = "Variable",
   is_map |-> kind = "Map",
   key_for_map |-> NULL,
   map |-> NULL,
   var |-> NULL,
   scal |-> [f \in ScalarFields(kind) |->
               IF f = "compound" THEN (IF compound THEN 1 ELSE 0)
               ELSE IF f \in CtorFields(kind) THEN v
               ELSE DefaultScalar(f)],
   index_ |-> EmptyIndex,
   kids |-> kids,
   args |-> kids,
   orig |-> NULL,
   live |-> TRUE,
   dels |-> 0,
   by |-> {}]

\* Parser reduction: build a node of class kind from the most recently built
\* parentless nodes.
Construct(kind, lens) ==
  LET k == SumSeq(Taken(lens))
      ops == LastK(roots, k)
      kids == FillSlots(lens, ops)
      id == Len(heap) + 1
  IN /\ pc = "parse"
     /\ Len(heap) < MaxNodes
     /\ Len(lens) = Len(Slots(kind))
     /\ ValidLens(kind, lens)
     /\ k <= Len(roots)
     /\ OperandsFit(kind, kids)
     /\ heap' = Append(heap, NewNode(kind, id, FALSE, kids))
     /\ roots' = Append(SubSeq(roots, 1, Len(roots) - k), id)
     /\ UNCHANGED <<pc, fault, crashed, aux>>

\* Compound assignment `@x += e` / `$x += e`: the parser builds
\* Binop(target, op, e) first and hands the same target node to the statement.
ConstructCompound(kind) ==
  LET id == Len(heap) + 1
      e == roots[Len(roots)]
      tgt == heap[e].kids[1].ids[1]
      kids == <<Ptr(<<tgt>>), Ptr(<<e>>)>>
  IN /\ pc = "parse"
     /\ Len(heap) < MaxNodes
     /\ kind \in {"AssignMapStatement", "AssignVarStatement"}
     /\ roots # <<>>
     /\ heap[e].kind = "Binop"
     /\ Fits(Slots(kind)[1].cat, heap[tgt].kind)
     /\ heap' = Append(heap, NewNode(kind, id, TRUE, kids))
     /\ roots' = Append(SubSeq(roots, 1, Len(roots) - 1), id)
     /\ UNCHANGED <<pc, fault, crashed, aux>>

\* ------------------------------------------------------------ destruction
\* One statement of a destructor body: delete the pointee(s) of a slot.
\* guarded: the code tests the list pointer before iterating it.
Step(slot, guarded) == [slot |-> slot, guarded |-> guarded]

\* Mutant: the assignment destructors delete the target without testing
\* the compound flag.
DtorStepsIgnoringCompound(nd) ==
  CASE nd.kind \in {"Call", "Map", "Unop", "FieldAccess", "Cast",
                    "ExprStatement", "Predicate", "Program"} -> <<Step(1, TRUE)>>
    [] nd.kind \in {"Binop", "ArrayAccess", "AssignMapStatement",
                    "AssignVarStatement"} -> <<Step(1, TRUE), Step(2, TRUE)>>
    [] nd.kind \in {"If", "Ternary", "Probe"} ->
         <<Step(1, TRUE), Step(2, TRUE), Step(3, TRUE)>>
    [] nd.kind = "Tuple" -> <<Step(1, FALSE)>>
    [] nd.kind = "Unroll" -> <<Step(2, TRUE)>>
    [] nd.kind = "While" -> <<Step(1, TRUE), Step(2, FALSE)>>
    [] OTHER -> <<>>

DtorSteps(nd) ==
  CASE nd.kind = "Call" -> <<Step(1, TRUE)>>
    [] nd.kind = "Map" -> <<Step(1, TRUE)>>
    [] nd.kind = "Binop" -> <<Step(1, TRUE), Step(2, TRUE)>>
    [] nd.kind = "Unop" -> <<Step(1, TRUE)>>
    [] nd.kind = "FieldAccess" -> <<Step(1, TRUE)>>
    [] nd.kind = "ArrayAccess" -> <<Step(1, TRUE), Step(2, TRUE)>>
    [] nd.kind = "Cast" -> <<Step(1, TRUE)>>
    [] nd.kind = "Tuple" -> <<Step(1, FALSE)>>
    [] nd.kind = "ExprStatement" -> <<Step(1, TRUE)>>
    [] nd.kind \in {"AssignMapStatement", "AssignVarStatement"} ->
         IF nd.scal["compound"] = 0 THEN <<Step(1, TRUE), Step(2, TRUE)>>
         ELSE <<Step(2, TRUE)>>
    [] nd.kind = "If" -> <<Step(1, TRUE), Step(2, TRUE), Step(3, TRUE)>>
    [] nd.kind = "Unroll" -> <<Step(2, TRUE)>>
    [] nd.kind = "Predicate" -> <<Step(1, TRUE)>>
    [] nd.kind = "Ternary" -> <<Step(1, TRUE), Step(2, TRUE), Step(3, TRUE)>>
    [] nd.kind = "While" -> <<Step(1, TRUE), Step(2, FALSE)>>
    [] nd.kind = "Probe" -> <<Step(1, TRUE), Step(2, TRUE), Step(3, TRUE)>>
    [] nd.kind = "Program" -> <<Step(1, TRUE)>>
    [] OTHER -> <<>>

\* Slots a destructor resets to nullptr after deleting.
DtorNulls(nd) ==
  CASE nd.kind \in {"Tuple", "While"} -> {}
    [] nd.kind = "Unroll" -> {2}
    [] OTHER -> 1..Len(nd.kids)

DeleteTask(by, n) == [op |-> "delete", by |-> by, n |-> n]
DerefTask(by) == [op |-> "deref", by |-> by, n |-> NULL]
FinTask(n) == [op |-> "fin", by |-> n, n |-> n]

RECURSIVE Flatten(_)
Flatten(ss) == IF ss = <<>> THEN <<>> ELSE Head(ss) \o Flatten(Tail(ss))

\* The deletes a destructor body issues for its child slots, in program
\* order.
SlotDeletes(nd, id) ==
  LET steps == DtorSteps(nd)
      one(st) ==
        LET s == nd.kids[st.slot] IN
          IF s.null THEN (IF st.guarded THEN <<>> ELSE <<DerefTask(id)>>)
          ELSE [i \in 1..Len(s.ids) |-> DeleteTask(id, s.ids[i])]
  IN Flatten([i \in 1..Len(steps) |-> one(steps[i])])

\* Mutant: the Expression destructor also deletes the nodes its map and var
\* links point at.
DtorTasksFollowingLinks(nd, id) ==
  SlotDeletes(nd, id)
    \o <<DeleteTask(id, nd.map), DeleteTask(id, nd.var)>>
    \o <<FinTask(id)>>

\* A destructor: the deletes of its body, then the release of the object.
\* The binding links (key_for_map, map, var) are not owned and not deleted.
DtorTasks(nd, id) == SlotDeletes(nd, id) \o <<FinTask(id)>>

Released(nd) ==
  [nd EXCEPT !.live = FALSE,
             !.kids = [i \in 1..Len(nd.kids) |->
                         IF i \in DtorNulls(nd) THEN NullSlot ELSE nd.kids[i]]]

\* Run a stack of pending destructor work.  ub selects what the build does
\* on undefined behaviour (deleting a released object, iterating a null
\* vector): "abort" ends the process, "continue" carries on over the memory
\* as the first destruction left it.
RECURSIVE Run(_, _, _)
Run(st, work, ub) ==
  IF work = <<>> \/ st.crashed THEN st
  ELSE
    LET t == Head(work)
        rest == Tail(work)
    IN CASE t.op = "fin" ->
              Run([st EXCEPT !.heap[t.n] = Released(@)], rest, ub)
         [] t.op = "deref" ->
              LET st1 == [st EXCEPT !.fault = @ \cup {"null_deref"}] IN
                IF ub = "abort" THEN [st1 EXCEPT !.crashed = TRUE]
                ELSE Run(st1, rest, ub)
         [] t.op = "delete" /\ t.n = NULL -> Run(st, rest, ub)
         [] t.op = "delete" /\ t.n # NULL ->
              LET st1 == [st EXCEPT !.heap[t.n].dels = @ + 1,
                                    !.heap[t.n].by = @ \cup {t.by}]
              IN IF st.heap[t.n].live
                 THEN Run(st1, DtorTasks(st.heap[t.n], t.n) \o rest, ub)
                 ELSE LET st2 == [st1 EXCEPT !.fault = @ \cup {"double_free"}] IN
                   IF ub = "abort" THEN [st2 EXCEPT !.crashed = TRUE]
                   ELSE Run(st2, DtorTasks(st.heap[t.n], t.n) \o rest, ub)

UBOutcomes == {"abort", "continue"}

Driver == NULL

\* The driver deletes one root.
Destroy(r, ub) ==
  LET st == Run([heap |-> heap, fault |-> fault, crashed |-> crashed],
                <<DeleteTask(Driver, roots[r])>>, ub)
  IN /\ pc = "destroy"
     /\ ~crashed
     /\ r \in 1..Len(roots)
     /\ heap' = st.heap
     /\ fault' = st.fault
     /\ crashed' = st.crashed
     /\ roots' = SubSeq(roots, 1, r - 1) \o SubSeq(roots, r + 1, Len(roots))
     /\ UNCHANGED <<pc, aux>>

\* --------------------------------------------------------------- leaf copy
\* An object of class kind with every member at its default member
\* initialiser (child pointers nullptr, links nullptr).
Blank(kind) ==
  [kind |-> kind,
   loc |-> 0,
   type |-> 0,
   is_literal |-> FALSE,
   is_variable |-> FALSE,
   is_map |-> FALSE,
   key_for_map |-> NULL,
   map |-> NULL,
   var |-> NULL,
   scal |-> [f \in ScalarFields(kind) |-> DefaultScalar(f)],
   index_ |-> EmptyIndex,
   kids |-> [i \in 1..Len(Slots(kind)) |-> NullSlot],
   args |-> [i \in 1..Len(Slots(kind)) |-> NullSlot],
   orig |-> NULL,
   live |-> TRUE,
   dels |-> 0,
   by |-> {}]

\* Node(const Node &) = default: the location is copied.
NodeCopy(b, other) == [b EXCEPT !.loc = other.loc]

\* Expression(const Expression &): type and classification flags are copied,
\* the binding links stay at nullptr.
ExpressionCopy(b, other) ==
  [NodeCopy(b, other) EXCEPT !.type = other.type,
                             !.is_literal = other.is_literal,
                             !.is_variable = other.is_variable,
                             !.is_map = other.is_map]

BaseCopy(other) ==
  IF other.kind \in ExprKinds THEN ExpressionCopy(Blank(other.kind), other)
  ELSE NodeCopy(Blank(other.kind), other)

\* Classes whose copy constructor is `= default`, and Ternary, which declares
\* none and gets the implicit one: every member is copied, raw child
\* pointers included.
MemberwiseCopyKinds ==
  {"Integer", "PositionalParameter", "String", "StackMode", "Identifier",
   "Builtin", "Variable", "Jump", "AttachPoint", "Ternary"}

MemberwiseCopy(other) ==
  [BaseCopy(other) EXCEPT !.scal = other.scal,
                          !.index_ = other.index_,
                          !.kids = other.kids]

\* Classes whose copy constructor is written in the header as
\* `T(const T &other) : Base(other){}`: only the base is copied.  Child
\* pointers take their `= nullptr` initialiser; a scalar member without one
\* (compound) is left uninitialised, u being the value later read from it.
BaseOnlyCopyKinds ==
  {"ArrayAccess", "ExprStatement", "AssignMapStatement",
   "AssignVarStatement", "Predicate"}

BaseOnlyCopy(other, u) ==
  [BaseCopy(other) EXCEPT !.scal = [f \in DOMAIN other.scal |-> u]]

\* Classes whose copy constructor is only declared in the header: scalars
\* are copied, child slots are left empty.
DeclaredCopy(other) == [BaseCopy(other) EXCEPT !.scal = other.scal]

CopyCtor(other, u) ==
  CASE other.kind \in MemberwiseCopyKinds -> MemberwiseCopy(other)
    [] other.kind \in BaseOnlyCopyKinds -> BaseOnlyCopy(other, u)
    [] OTHER -> DeclaredCopy(other)

Copies == {n \in Ids : heap[n].orig # NULL}

\* T *leafcopy() { return new T(*this); }
LeafCopy(n, u) ==
  /\ pc = "pass"
  /\ n \in Ids
  /\ heap[n].orig = NULL
  /\ Cardinality(Copies) < MaxCopies
  /\ heap' = Append(heap, [CopyCtor(heap[n], u) EXCEPT !.orig = n])
  /\ roots' = Append(roots, Len(heap) + 1)
  /\ known' = IF n \in DOMAIN known
               THEN (Len(heap) + 1 :> known[n]) @@ known
               ELSE known
  /\ UNCHANGED <<pc, fault, crashed, call, visited, xp>>

\* ------------------------------------------------------------ binding links
\* The statement (of class kind) whose right-hand expression is e, if any.
AssignedBy(kind, e) ==
  {s \in Ids : /\ heap[s].kind = kind
               /\ ~heap[s].kids[1].null
               /\ heap[s].kids[2].ids = <<e>>}

\* The map e is a key expression of, if any.
KeyOf(e) == {m \in Ids : heap[m].kind = "Map" /\ e \in SlotIds(heap[m].kids[1])}

LinkFor(owners, slot, old) ==
  IF owners = {} THEN old
  ELSE LET o == CHOOSE x \in owners : TRUE
       IN IF slot = 0 THEN o ELSE heap[o].kids[slot].ids[1]

\* A pass walks the tree: for every assignment statement it points the
\* right-hand expression's map / var link at the statement's target, and it
\* points every key expression of a map at that map.
BindLinks ==
  LET bound == [e \in 1..Len(heap) |->
                  IF heap[e].kind \in ExprKinds
                  THEN [heap[e] EXCEPT
                          !.map = LinkFor(AssignedBy("AssignMapStatement", e), 1, @),
                          !.var = LinkFor(AssignedBy("AssignVarStatement", e), 1, @),
                          !.key_for_map = LinkFor(KeyOf(e), 0, @)]
                  ELSE heap[e]]
  IN /\ pc = "pass"
     /\ bound # heap
     /\ heap' = bound
     /\ UNCHANGED <<roots, pc, fault, crashed, aux>>

\* The driver moves from parsing to the passes, and from the passes to
\* tear-down.
EndParse(rootkinds) ==
  /\ pc = "parse"
  /\ Len(roots) = 1
  /\ heap[roots[1]].kind \in rootkinds
  /\ pc' = "pass"
  /\ UNCHANGED <<heap, roots, fault, crashed, aux>>

EndPasses ==
  /\ pc = "pass"
  /\ pc' = "destroy"
  /\ UNCHANGED <<heap, roots, fault, crashed, aux>>

\* ---------------------------------------------------------- specification
NoKnown == [x \in {} |-> 0]
NoCall == [ap |-> NULL, name |-> "", ret |-> 0, expected |-> 0]
NoExpansion == [template |-> NULL, ap |-> NULL, matches |-> <<>>,
                expanded |-> <<>>, snap |-> <<>>]

Init ==
  /\ heap = <<>>
  /\ roots = <<>>
  /\ pc = "parse"
  /\ fault = {}
  /\ crashed = FALSE
  /\ known = NoKnown
  /\ call = NoCall
  /\ visited = <<>>
  /\ xp = NoExpansion

LenChoices == -1..MaxList

AssignTargets == {"AssignMapStatement", "AssignVarStatement"}

ParseStep(kinds) ==
  /\ pc = "parse"
  /\ \/ \E kind \in kinds : \E lens \in [1..Len(Slots(kind)) -> LenChoices] :
          Construct(kind, lens)
     \/ \E kind \in kinds \cap AssignTargets : ConstructCompound(kind)

PassStep ==
  /\ pc = "pass"
  /\ \/ \E n \in Ids : \E u \in {0, 1} : LeafCopy(n, u)
     \/ BindLinks

DestroyStep ==
  /\ pc = "destroy"
  /\ \E r \in 1..Len(roots) : \E ub \in UBOutcomes : Destroy(r, ub)

Next ==
  \/ ParseStep(ParserKinds)
  \/ EndParse(Kinds)
  \/ PassStep
  \/ EndPasses
  \/ DestroyStep

Spec == Init /\ [][Next]_vars

\* The same program restricted to the inputs an assignment can occur in:
\* targets, operands, the operators over them and one enclosing loop.
AssignKinds ==
  {"Integer", "Variable", "Map", "Binop", "AssignMapStatement",
   "AssignVarStatement", "While"}

NextAssign ==
  \/ ParseStep(AssignKinds)
  \/ EndParse(StmtKinds)
  \/ PassStep
  \/ EndPasses
  \/ DestroyStep

SpecAssign == Init /\ [][NextAssign]_vars

\* ------------------------------------------------------------------ claims
\* Nodes built by a constructor (not by leafcopy).
Built == {n \in Ids : heap[n].orig = NULL}

IsCompound(nd) == nd.kind \in AssignTargets /\ nd.scal["compound"] = 1

\* The children a constructor took ownership of.  A compound assignment is
\* handed its target as an alias of the expression's left operand.
OwnedArgs(nd) ==
  UNION {SlotIds(nd.args[i]) :
           i \in {j \in 1..Len(nd.args) : ~(j = 1 /\ IsCompound(nd))}}

\* The destructor of n ran to completion.
Destroyed(n) == ~heap[n].live

\* C1: constructing a composite node with its children and then destroying
\* it destroys every child passed to its constructor exactly once (no leak,
\* no double destruction), for every composite kind, Unroll included.
C1_ChildrenDestroyedOnce ==
  \A p \in Built :
    Destroyed(p) => \A c \in OwnedArgs(heap[p]) : heap[c].dels = 1

\* C2: destroying a compound assignment does not delete its map/var field
\* directly, the shared target is destroyed exactly once, through the
\* expression operand; a non-compound assignment destroys its target and its
\* expression exactly once each.
C2_CompoundAssignOwnership ==
  \A s \in Built :
    (heap[s].kind \in AssignTargets /\ Destroyed(s)) =>
      LET tgt == heap[s].args[1].ids[1]
          e == heap[s].args[2].ids[1]
      IN /\ heap[e].dels = 1 /\ heap[e].by = {s}
         /\ heap[tgt].dels = 1
         /\ IF IsCompound(heap[s]) THEN heap[tgt].by = {e}
            ELSE heap[tgt].by = {s}

C2_Witness ==
  \E s \in Built :
    /\ IsCompound(heap[s])
    /\ Destroyed(s)
    /\ heap[heap[s].args[1].ids[1]].dels = 1

\* C3: leafcopy() of a node of any kind returns a node whose every
\* owned-child slot is empty, whatever children the original holds.
C3_CopyHasNoChildren ==
  \A c \in Copies : \A i \in 1..Len(heap[c].kids) : heap[c].kids[i].null

\* C4: leafcopy() returns a node of the same kind whose location and every
\* scalar field equal the original's, the compound flag included.
C4_CopyKeepsScalars ==
  \A c \in Copies :
    LET o == heap[heap[c].orig] IN
      /\ heap[c].kind = o.kind
      /\ heap[c].loc = o.loc
      /\ heap[c].type = o.type
      /\ heap[c].is_literal = o.is_literal
      /\ heap[c].is_variable = o.is_variable
      /\ heap[c].is_map = o.is_map
      /\ heap[c].scal = o.scal
      /\ heap[c].index_ = o.index_

\* C5: destroying a node whose optional or list-valued child slots are
\* absent never dereferences an absent child, for leaf copies too.
C5_NoNullDereference == "null_deref" \notin fault

\* C10: after leafcopy() the original and the copy share no owned child:
\* destroying both, in either order, destroys every node at most once.
C10_NoDoubleDestruction ==
  /\ \A n \in Ids : heap[n].dels <= 1
  /\ "double_free" \notin fault

\* e carries a binding link to m.
Linked(e, m) ==
  m # NULL /\ (heap[e].map = m \/ heap[e].var = m \/ heap[e].key_for_map = m)

\* The target of an assignment statement's map / var link.
LinkTarget(e, m) == m # NULL /\ (heap[e].map = m \/ heap[e].var = m)

Names == {"a", "b"}
MaxIndex == 2
Unset == -1

\* Mutant: a name seen for the first time is given the next integer not yet
\* handed out by this attach point.
RegisteredNextUnused(tbl, name) ==
  IF name \in DOMAIN tbl THEN tbl ELSE (name :> Cardinality(DOMAIN tbl)) @@ tbl

\* The name-to-index table after a lookup of name: a name seen for the first
\* time is registered with index 0.
Registered(tbl, name) ==
  IF name \in DOMAIN tbl THEN tbl ELSE (name :> 0) @@ tbl

IsAttachPoint(ap) == ap \in Ids /\ heap[ap].kind = "AttachPoint"

\* int AttachPoint::index(std::string name)
Index(ap, name) ==
  LET tbl == Registered(heap[ap].index_, name) IN
    /\ pc = "pass"
    /\ IsAttachPoint(ap)
    /\ heap' = [heap EXCEPT ![ap].index_ = tbl]
    /\ call' = [ap |-> ap, name |-> name, ret |-> tbl[name],
                expected |-> known[ap][name]]
    /\ known' = [known EXCEPT ![ap][name] = tbl[name]]
    /\ UNCHANGED <<roots, pc, fault, crashed, visited, xp>>

\* void AttachPoint::set_index(std::string name, int index)
SetIndex(ap, name, i) ==
  /\ pc = "pass"
  /\ IsAttachPoint(ap)
  /\ heap' = [heap EXCEPT ![ap].index_ = (name :> i) @@ @]
  /\ known' = [known EXCEPT ![ap][name] = i]
  /\ call' = NoCall
  /\ UNCHANGED <<roots, pc, fault, crashed, visited, xp>>

\* One attach point has been constructed; passes then look indices up, set
\* them, and leaf-copy the attach point.
InitIndex ==
  /\ heap = <<NewNode("AttachPoint", 1, FALSE, <<>>)>>
  /\ roots = <<1>>
  /\ pc = "pass"
  /\ fault = {}
  /\ crashed = FALSE
  /\ known = (1 :> [n \in Names |-> Unset])
  /\ call = NoCall
  /\ visited = <<>>
  /\ xp = NoExpansion

NextIndex ==
  \/ \E ap \in Ids : \E name \in Names : Index(ap, name)
  \/ \E ap \in Ids : \E name \in Names : \E i \in 0..MaxIndex :
       SetIndex(ap, name, i)
  \/ \E n \in Ids : LeafCopy(n, 0)

SpecIndex == InitIndex /\ [][NextIndex]_vars

\* C7: each key of an attach point behaves as its own register: index(name)
\* returns the value last set or last returned for that name, 0 for a name
\* never used, and a call on one name (or on another attach point) never
\* changes the value held for a different name.
C7_IndexIsRegister ==
  /\ call.ap # NULL =>
       call.ret = IF call.expected = Unset THEN 0 ELSE call.expected
  /\ \A ap \in DOMAIN known : \A name \in Names :
       IF known[ap][name] = Unset THEN name \notin DOMAIN heap[ap].index_
       ELSE /\ name \in DOMAIN heap[ap].index_
            /\ heap[ap].index_[name] = known[ap][name]

C7_Witness ==
  /\ call.ap # NULL
  /\ call.expected > 0
  /\ call.ret = call.expected
  /\ \E other \in Names \ {call.name} :
       known[call.ap][other] \notin {Unset, call.ret}

\* --------------------------------------------------------- visitor dispatch
\* The child slots a traversal descends into, in declaration order.  The
\* target field of a compound assignment is an alias of the expression's
\* left operand and is reached through the expression.
VisitSlots(nd) ==
  IF IsCompound(nd) THEN <<2>> ELSE [i \in 1..Len(nd.kids) |-> i]

\* Mutant: the traversal also descends into the aliased target field.
WalkSlotsWithAlias(nd) == [i \in 1..Len(nd.kids) |-> i]

WalkSlots(nd) == VisitSlots(nd)

\* The ids of the children a traversal descends into, in order.
VisitChildren(nd) ==
  LET sl == WalkSlots(nd)
  IN Flatten([i \in 1..Len(sl) |-> nd.kids[sl[i]].ids])

\* n.accept(v) with a visitor that records the node and then visits its
\* children: the nodes in the order they are met.
RECURSIVE Walk(_)
Walk(n) ==
  LET cs == VisitChildren(heap[n])
  IN <<n>> \o Flatten([i \in 1..Len(cs) |-> Walk(cs[i])])

\* A pass walks the tree from its root.
Accept ==
  /\ pc = "pass"
  /\ visited = <<>>
  /\ visited' = Walk(roots[1])
  /\ UNCHANGED <<heap, roots, pc, fault, crashed, known, call, xp>>

VisitKinds ==
  {"Integer", "Jump", "AttachPoint", "Map", "Tuple", "Binop", "Ternary",
   "If", "While", "AssignMapStatement", "Predicate", "Probe", "Program"}

NextVisit ==
  \/ ParseStep(VisitKinds)
  \/ EndParse(Kinds)
  \/ Accept

SpecVisit == Init /\ [][NextVisit]_vars

\* The owned children of a node in constructor order.
OwnedSeq(nd) ==
  LET sl == VisitSlots(nd)
  IN Flatten([i \in 1..Len(sl) |-> nd.args[sl[i]].ids])

\* Every node owned, directly or not, by n.
RECURSIVE Desc(_)
Desc(n) ==
  LET cs == OwnedArgs(heap[n])
  IN cs \cup UNION {Desc(c) : c \in cs}

Pos(seq, n) == CHOOSE i \in 1..Len(seq) : seq[i] = n

MaxMatches == 2

\* The concrete targets the attach-point resolver can name.
Targets == 1..MaxMatches

\* A resolver result: one or more distinct targets, in the resolver's order.
Matches ==
  {m \in UNION {[1..n -> Targets] : n \in 1..MaxMatches} :
     \A i \in DOMAIN m : \A j \in DOMAIN m : m[i] = m[j] => i = j}

\* The lengths of a node's child slots, -1 for a null pointer.
SlotLens(nd) ==
  [i \in 1..Len(nd.kids) |-> IF nd.kids[i].null THEN -1 ELSE Len(nd.kids[i].ids)]

\* Mutant: a leaf copy carries over only the base-class part of any node.
CopyOfBaseOnly(other) == BaseOnlyCopy(other, 0)

\* The copy the expansion pass takes of a node: `other.leafcopy()`.
CopyOf(other) == CopyCtor(other, 0)

\* Deep copy of the subtrees rooted at ids, laid out after heap position base:
\* every node is leaf-copied and the copies of its children are attached to
\* the copy.  nodes are the new objects, tops the ids of the subtree copies.
RECURSIVE CloneSeq(_, _)
RECURSIVE CloneList(_, _)
CloneList(ids, base) ==
  IF ids = <<>> THEN [nodes |-> <<>>, tops |-> <<>>]
  ELSE LET h == CloneSeq(Head(ids), base)
           r == CloneList(Tail(ids), base + Len(h))
       IN [nodes |-> h \o r.nodes, tops |-> <<base + Len(h)>> \o r.tops]

CloneSeq(n, base) ==
  LET nd == heap[n]
      cl == CloneList(Flatten([i \in 1..Len(nd.kids) |-> nd.kids[i].ids]), base)
      kids == FillSlots(SlotLens(nd), cl.tops)
  IN cl.nodes \o <<[CopyOf(nd) EXCEPT !.kids = kids, !.args = kids, !.orig = n]>>

\* The attach-point parser finds a wildcard in attach point a of probe p.
MarkExpansion(p, a) ==
  /\ pc = "pass"
  /\ xp.template = NULL
  /\ heap[p].kind = "Probe"
  /\ a \in SlotIds(heap[p].kids[1])
  /\ heap[a].scal["need_expansion"] = 0
  /\ heap' = [heap EXCEPT ![a].scal["need_expansion"] = 1,
                          ![p].scal["need_expansion"] = 1]
  /\ UNCHANGED <<roots, pc, fault, crashed, known, call, visited, xp>>

\* The resolver answers for the wildcard attach point a of probe p.
Resolve(p, a, m) ==
  /\ pc = "pass"
  /\ xp.template = NULL
  /\ heap[p].kind = "Probe"
  /\ heap[p].scal["need_expansion"] = 1
  /\ a \in SlotIds(heap[p].kids[1])
  /\ heap[a].scal["need_expansion"] = 1
  /\ xp' = [template |-> p, ap |-> a, matches |-> m, expanded |-> <<>>,
            snap |-> heap]
  /\ UNCHANGED <<heap, roots, pc, fault, crashed, known, call, visited>>

\* The expansion pass stamps out the probe of the next match: a leaf copy of
\* the template probe with the next probe index, one attach point (a leaf copy
\* of the wildcard attach point naming the matched target) and deep copies of
\* the predicate and the statements.
ExpandNext ==
  LET i == Len(xp.expanded) + 1
      t == heap[xp.template]
      base == Len(heap)
      apn == [CopyOf(heap[xp.ap]) EXCEPT !.scal["func"] = xp.matches[i],
                                         !.orig = xp.ap]
      cl == CloneList(t.kids[2].ids \o t.kids[3].ids, base + 1)
      kids == FillSlots(<<1, SlotLens(t)[2], SlotLens(t)[3]>>,
                        <<base + 1>> \o cl.tops)
      id == base + 1 + Len(cl.nodes) + 1
      probe == [CopyOf(t) EXCEPT !.scal["index_"] = i - 1,
                                 !.kids = kids, !.args = kids,
                                 !.orig = xp.template]
  IN /\ pc = "pass"
     /\ xp.template # NULL
     /\ i <= Len(xp.matches)
     /\ heap' = heap \o <<apn>> \o cl.nodes \o <<probe>>
     /\ roots' = Append(roots, id)
     /\ xp' = [xp EXCEPT !.expanded = Append(@, id)]
     /\ UNCHANGED <<pc, fault, crashed, known, call, visited>>

\* The expansion pass, once started, runs to its end.
ExpansionDone == xp.template = NULL \/ Len(xp.expanded) = Len(xp.matches)

ExpandKinds ==
  {"AttachPoint", "Integer", "Predicate", "Jump", "ExprStatement", "Probe"}

NextExpand ==
  \/ ParseStep(ExpandKinds)
  \/ EndParse({"Probe"})
  \/ \E p \in Ids : \E a \in Ids : MarkExpansion(p, a)
  \/ \E p \in Ids : \E a \in Ids : \E m \in Matches : Resolve(p, a, m)
  \/ ExpandNext
  \/ (ExpansionDone /\ EndPasses)
  \/ DestroyStep

SpecExpand == Init /\ [][NextExpand]_vars

====
